---- MODULE Spec2Model ----
(***************************************************************************)
(* Model of the Oscilloscope widget (Source/Oscilloscope.h, .cpp).         *)
(*                                                                         *)
(* Spec        : the host configures the widget (assignment, prepare,      *)
(*               resize, the setters) and paints it.                       *)
(* SpecPaint   : whole frame deliveries and whole paint passes under every *)
(*               window, width and aggregation method.                     *)
(* SpecThreads : the audio thread (audioProbeUpdated, sample by sample)    *)
(*               interleaved with the message thread (paint, read by read, *)
(*               timerCallback, destruction).                              *)
(*                                                                         *)
(* float values are modelled as exact extended rationals (sign, numerator, *)
(* denominator, plus infinity and NaN with the IEEE-754 rules for them);   *)
(* rounding is not modelled.                                               *)
(***************************************************************************)
EXTENDS Integers, Sequences, FiniteSets

VARIABLES
    oscProcessor,       \* 0 is nullptr, otherwise the processor assigned
    width, height,      \* getWidth(), getHeight() of the component
    amplitudeMax,       \* float
    minXsamples, maxXsamples,
    xRatio, yRatio, xRatioInv, yRatioInv,   \* floats
    aggregationMethod,
    buffer,             \* AudioBuffer<float>: size and, per sample, the frame it came from
    p,                  \* per channel, the Path built by the paint pass that ran last
    runs,               \* per channel, <<first, last>> sample index behind each lineTo of p
    lastCall,           \* setXmax and its argument, if that is the handler that ran last
    ub,                 \* "none", or the undefined behaviour the execution ran into
    \* -- the two threads
    listeners,          \* processors whose listener list holds this widget
    dataFrameReady,     \* Atomic<bool>
    critSection,        \* "free" or the thread holding it
    dirty,              \* a repaint() is pending on the message thread
    audio,              \* position of the audio thread inside audioProbeUpdated
    paint,              \* position of the message thread inside paintWaveform
    widget,             \* "alive", "deregistered" (destructor body done), "released"
    written,            \* SpecThreads: a frame was copied completely since the last paint pass began
    staleRender,        \* SpecThreads: the last paint pass began with no frame copied since the one before
    seen                \* the frames the samples read so far by the running paint pass came from

vars == << oscProcessor, width, height, amplitudeMax, minXsamples, maxXsamples,
           xRatio, yRatio, xRatioInv, yRatioInv, aggregationMethod, buffer, p, runs,
           lastCall, ub, listeners, dataFrameReady, critSection, dirty, audio, paint,
           widget, written, staleRender, seen >>

cfgVars == << width, height, amplitudeMax, minXsamples, maxXsamples,
              xRatio, yRatio, xRatioInv, yRatioInv >>
threadVars == << dataFrameReady, critSection, audio, paint,
                 widget, written, staleRender, seen >>

(***************************************************************************)
(* Bounds                                                                  *)
(***************************************************************************)
MaxBlock     == 4    \* maximum block size of processor 1
MaxWidth     == 2    \* largest viewport width tried
MaxHeight    == 1    \* the viewport height tried besides 0
MaxAmplitude == 2    \* the amplitude scale tried besides 0 and the default
NumFrames    == 2    \* distinct frame contents
XMargin      == 1    \* how far outside 0..MaxBlock the setter arguments go

(***************************************************************************)
(* float arithmetic                                                        *)
(***************************************************************************)
RECURSIVE GCD(_, _)
GCD(a, b) == IF b = 0 THEN a ELSE GCD(b, a % b)

Abs(x) == IF x < 0 THEN -x ELSE x

NaN    == [k |-> "nan", s |-> 1, n |-> 0, d |-> 1]
Inf(s) == [k |-> "inf", s |-> s, n |-> 0, d |-> 1]
Fin(s, n, d) ==
    LET g == GCD(n, d)
    IN  IF n = 0 THEN [k |-> "fin", s |-> s, n |-> 0, d |-> 1]
        ELSE [k |-> "fin", s |-> s, n |-> n \div g, d |-> d \div g]

\* static_cast<float> (int)
IntToFloat(x) == Fin(IF x < 0 THEN -1 ELSE 1, Abs(x), 1)

IsZero(a)   == a.k = "fin" /\ a.n = 0
IsFinite(a) == a.k = "fin"

FNeg(a) == IF a.k = "nan" THEN NaN ELSE [a EXCEPT !.s = -a.s]
FAbs(a) == IF a.k = "nan" THEN NaN ELSE [a EXCEPT !.s = 1]

FMul(a, b) ==
    IF a.k = "nan" \/ b.k = "nan" THEN NaN
    ELSE IF a.k = "inf" \/ b.k = "inf"
         THEN IF IsZero(a) \/ IsZero(b) THEN NaN ELSE Inf(a.s * b.s)
         ELSE Fin(a.s * b.s, a.n * b.n, a.d * b.d)

FDiv(a, b) ==
    IF a.k = "nan" \/ b.k = "nan" THEN NaN
    ELSE IF a.k = "inf"
         THEN IF b.k = "inf" THEN NaN ELSE Inf(a.s * b.s)
         ELSE IF b.k = "inf" THEN Fin(a.s * b.s, 0, 1)
         ELSE IF IsZero(b)
              THEN IF IsZero(a) THEN NaN ELSE Inf(a.s * b.s)
              ELSE Fin(a.s * b.s, a.n * b.d, a.d * b.n)

FAdd(a, b) ==
    IF a.k = "nan" \/ b.k = "nan" THEN NaN
    ELSE IF a.k = "inf"
         THEN IF b.k = "inf" /\ b.s # a.s THEN NaN ELSE a
         ELSE IF b.k = "inf" THEN b
         ELSE LET num == a.s * a.n * b.d + b.s * b.n * a.d
              IN  IF num = 0
                  THEN Fin(IF a.s = -1 /\ b.s = -1 THEN -1 ELSE 1, 0, 1)
                  ELSE Fin(IF num < 0 THEN -1 ELSE 1, Abs(num), a.d * b.d)

FSub(a, b) == FAdd(a, FNeg(b))

\* a < b
FLess(a, b) ==
    IF a.k = "nan" \/ b.k = "nan" THEN FALSE
    ELSE IF a.k = "inf" THEN a.s = -1 /\ ~(b.k = "inf" /\ b.s = -1)
    ELSE IF b.k = "inf" THEN b.s = 1
    ELSE a.s * a.n * b.d < b.s * b.n * a.d

One == IntToFloat(1)
Two == IntToFloat(2)

(***************************************************************************)
(* The producer (OscilloscopeProcessor) as the widget sees it              *)
(***************************************************************************)
nullptr    == 0
Processors == {1, 2}

getMaximumBlockSize(q) == MaxBlock - (q - 1)
getNumChannels(q)      == IF q = 1 THEN 2 ELSE 1
ownsProbe(q, owner)    == q = owner

\* Sample i of channel ch in the frame with content k (k in 1..NumFrames)
FrameSample(k, ch, i) == IF (k + ch + i) % 2 = 0 THEN 1 ELSE -2
SampleValues == {1, -2}

XArgs         == {0 - XMargin} \cup (0 .. MaxBlock) \cup {MaxBlock + XMargin}
AmplitudeArgs == {0, MaxAmplitude}
Heights       == {0, MaxHeight}
Methods       == {"NearestSample", "Maximum", "Average"}

jmin(a, b) == IF b < a THEN b ELSE a
\* jlimit (lower, upper, value)
jlimit(lo, hi, v) == IF FLess(v, lo) THEN lo ELSE IF FLess(hi, v) THEN hi ELSE v

(***************************************************************************)
(* AudioBuffer<float>                                                      *)
(***************************************************************************)
\* data[ch][i] is the content id of the frame the sample was copied from,
\* 0 for a sample no frame was copied into since the allocation.
NewBuffer(nc, ns) ==
    [numChannels |-> nc, numSamples |-> ns,
     data |-> [ch \in 0 .. nc - 1 |-> [i \in 0 .. ns - 1 |-> 0]]]

\* buffer.setSize (nc, ns): nothing happens when the size is the same
setSize(b, nc, ns) ==
    IF b.numChannels = nc /\ b.numSamples = ns THEN b ELSE NewBuffer(nc, ns)

InBuffer(b, ch, i) ==
    /\ ch \in 0 .. b.numChannels - 1
    /\ i \in 0 .. b.numSamples - 1

\* y[i] for y = buffer.getReadPointer (ch); u is what a sample that was never
\* written (or lies outside the row) happens to hold
Y(b, ch, i, u) ==
    IF InBuffer(b, ch, i) /\ b.data[ch][i] # 0
    THEN IntToFloat(FrameSample(b.data[ch][i], ch, i))
    ELSE IntToFloat(u)

(***************************************************************************)
(* Coordinate mapping                                                      *)
(***************************************************************************)
toAmpFromPx(yInPixels) == FSub(amplitudeMax, FMul(yInPixels, yRatioInv))
toPxFromAmp(amplitude) ==
    FMul(FSub(amplitudeMax, jlimit(FNeg(amplitudeMax), amplitudeMax, amplitude)), yRatio)
toPxFromTime(xInSamples) == FMul(IntToFloat(xInSamples - minXsamples), xRatio)

\* maxXsamples = jmin (maxXsamples, oscProcessor->getMaximumBlockSize())
LimitXmaxUnlimited(mx, q) == mx
LimitXmax(mx, q) == jmin(mx, getMaximumBlockSize(q))

\* calculateRatios() run with processor q, window [mn, mx), scale amp, size w x h
calculateRatios(q, mn, mx, amp, w, h) ==
    /\ maxXsamples' = LimitXmax(mx, q)
    /\ xRatio' = FDiv(IntToFloat(w), IntToFloat(maxXsamples' - mn))
    /\ xRatioInv' = FDiv(One, xRatio')
    /\ yRatio' = FDiv(IntToFloat(h), FMul(amp, Two))
    /\ yRatioInv' = FDiv(One, yRatio')

(***************************************************************************)
(* paintWaveform: the polyline of one channel                              *)
(***************************************************************************)
\* const auto nextPx = curPx + 1
NextPxSame(curPx) == curPx
NextPx(curPx) == FAdd(curPx, One)

\* The inner while of the average branch. st: i, curPx, ySum, count, reads
RECURSIVE averageRun(_, _, _, _, _, _)
averageRun(b, ch, u, limit, nextPx, st) ==
    IF st.i < limit /\ FLess(st.curPx, nextPx)
    THEN LET i2 == st.i + 1
         IN  averageRun(b, ch, u, limit, nextPx,
                 [st EXCEPT !.i = i2,
                            !.curPx = toPxFromTime(i2),
                            !.ySum = FAdd(st.ySum, Y(b, ch, i2, u)),
                            !.count = st.count + 1,
                            !.reads = Append(st.reads, i2)])
    ELSE st

\* The inner while of the other branch. st: i, curPx, yMax, reads
RECURSIVE maximumRun(_, _, _, _, _, _)
maximumRun(b, ch, u, limit, nextPx, st) ==
    IF st.i < limit /\ FLess(st.curPx, nextPx)
    THEN LET i2 == st.i + 1
             yi == Y(b, ch, i2, u)
         IN  maximumRun(b, ch, u, limit, nextPx,
                 [st EXCEPT !.i = i2,
                            !.curPx = toPxFromTime(i2),
                            !.yMax = IF FLess(FAbs(st.yMax), FAbs(yi)) THEN yi ELSE st.yMax,
                            !.reads = Append(st.reads, i2)])
    ELSE st

\* while (i < limit) { ... }. st: i, curPx, p (the vertices), reads (the indices
\* read, in order), runs (<<first, last>> index of the samples behind each lineTo)
RECURSIVE waveformLoop(_, _, _, _, _)
waveformLoop(b, ch, u, limit, st) ==
    IF ~(st.i < limit) THEN st
    ELSE LET nextPx == NextPx(st.curPx)
             first  == Y(b, ch, st.i, u)
             avg == averageRun(b, ch, u, limit, nextPx,
                        [i |-> st.i, curPx |-> st.curPx, ySum |-> first, count |-> 1,
                         reads |-> Append(st.reads, st.i)])
             max == maximumRun(b, ch, u, limit, nextPx,
                        [i |-> st.i, curPx |-> st.curPx, yMax |-> first,
                         reads |-> Append(st.reads, st.i)])
         IN  IF aggregationMethod = "Average"
             THEN waveformLoop(b, ch, u, limit,
                      [i |-> avg.i + 1, curPx |-> avg.curPx,
                       p |-> Append(st.p, << avg.curPx,
                                toPxFromAmp(FDiv(avg.ySum, IntToFloat(avg.count))) >>),
                       reads |-> avg.reads,
                       runs |-> Append(st.runs, << st.i, avg.i >>)])
             ELSE waveformLoop(b, ch, u, limit,
                      [i |-> max.i + 1, curPx |-> max.curPx,
                       p |-> Append(st.p, << max.curPx, toPxFromAmp(max.yMax) >>),
                       reads |-> max.reads,
                       runs |-> Append(st.runs, << st.i, max.i >>)])

\* The body of the channel loop up to strokePath
paintChannel(b, ch, u) ==
    LET i     == minXsamples
        limit == maxXsamples - 1
        curPx == toPxFromTime(i)
    IN  waveformLoop(b, ch, u, limit,
            [i |-> i, curPx |-> curPx,
             p |-> << << curPx, toPxFromAmp(Y(b, ch, i, u)) >> >>,
             reads |-> << i >>,
             runs |-> << >>])

\* The sample indices paintWaveform reads from a channel row, in order
ReadOrder(ch) == paintChannel(buffer, ch, 0).reads

(***************************************************************************)
(* The widget after construction                                           *)
(***************************************************************************)
Init ==
    /\ oscProcessor = nullptr
    /\ width = 0 /\ height = 0
    /\ amplitudeMax = One
    /\ minXsamples = 0 /\ maxXsamples = 0
    /\ xRatio = One /\ yRatio = One /\ xRatioInv = One /\ yRatioInv = One
    /\ aggregationMethod = "NearestSample"
    /\ buffer = NewBuffer(0, 0)
    /\ p = << >> /\ runs = << >>
    /\ lastCall = [op |-> "other", arg |-> 0]
    /\ ub = "none"
    /\ listeners = {}
    /\ dataFrameReady = FALSE
    /\ critSection = "free"
    /\ dirty = FALSE
    /\ audio = [pc |-> "idle"]
    /\ paint = [pc |-> "idle"]
    /\ widget = "alive"
    /\ written = FALSE /\ staleRender = FALSE
    /\ seen = {}

\* The message thread is between handlers and the execution is still defined
Ready == ub = "none" /\ widget = "alive" /\ paint.pc = "idle"

\* lastCall keeps the argument of a setXmax call until the next handler runs;
\* the Path of a paint pass is gone when the next handler runs
Called(op, arg) == /\ lastCall' = IF op = "setXmax" THEN [op |-> op, arg |-> arg]
                                  ELSE [op |-> "other", arg |-> 0]
                   /\ p' = << >> /\ runs' = << >>

\* A call through the unassigned oscProcessor
NullDeref == ub' = "nullDeref"

\* oscProcessor->addListener (this)
addListener(ls, q) == ls \cup {q}

\* prepare() on a widget whose oscProcessor is q (not nullptr)
prepareWith(q, mx) ==
    /\ buffer' = setSize(buffer, getNumChannels(q), getMaximumBlockSize(q))
    /\ audio' = IF audio.pc = "copy" /\ buffer' # buffer
                THEN [audio EXCEPT !.dangling = TRUE] ELSE audio
    /\ calculateRatios(q, minXsamples, mx, amplitudeMax, width, height)

assignOscProcessor(q) ==
    /\ Ready
    /\ Called("assignOscProcessor", q)
    /\ oscProcessor' = q
    /\ prepareWith(q, IF maxXsamples = 0 THEN getMaximumBlockSize(q) ELSE maxXsamples)
    /\ listeners' = addListener(listeners, q)
    /\ UNCHANGED << width, height, amplitudeMax, minXsamples, aggregationMethod, ub,
                    dataFrameReady, critSection, dirty, paint, widget, written,
                    staleRender, seen >>

prepare ==
    /\ Ready
    /\ Called("prepare", 0)
    /\ IF oscProcessor = nullptr
       THEN NullDeref /\ UNCHANGED << buffer, audio, maxXsamples, xRatio, yRatio,
                                      xRatioInv, yRatioInv >>
       ELSE prepareWith(oscProcessor, maxXsamples) /\ UNCHANGED ub
    /\ UNCHANGED << oscProcessor, width, height, amplitudeMax, minXsamples,
                    aggregationMethod, listeners, dataFrameReady, critSection, dirty,
                    paint, widget, written, staleRender, seen >>

\* calculateRatios() as a handler calls it, the fields it reads already assigned
Recalculate(mn, mx, amp, w, h) ==
    IF oscProcessor = nullptr
    THEN NullDeref /\ maxXsamples' = mx
                   /\ UNCHANGED << xRatio, yRatio, xRatioInv, yRatioInv >>
    ELSE calculateRatios(oscProcessor, mn, mx, amp, w, h) /\ UNCHANGED ub

\* The host gave the component the size w x h
resized(w, h) ==
    /\ Ready
    /\ Called("resized", 0)
    /\ width' = w /\ height' = h
    /\ Recalculate(minXsamples, maxXsamples, amplitudeMax, w, h)
    /\ UNCHANGED << oscProcessor, amplitudeMax, minXsamples, aggregationMethod, buffer,
                    listeners, dirty >>
    /\ UNCHANGED threadVars

setMaxAmplitude(maximumAmplitude) ==
    /\ Ready
    /\ Called("setMaxAmplitude", maximumAmplitude)
    /\ amplitudeMax' = IntToFloat(maximumAmplitude)
    /\ Recalculate(minXsamples, maxXsamples, amplitudeMax', width, height)
    /\ UNCHANGED << oscProcessor, width, height, minXsamples, aggregationMethod, buffer,
                    listeners, dirty >>
    /\ UNCHANGED threadVars

setXmin(minimumX) ==
    /\ Ready
    /\ Called("setXmin", minimumX)
    /\ minXsamples' = minimumX
    /\ Recalculate(minimumX, maxXsamples, amplitudeMax, width, height)
    /\ UNCHANGED << oscProcessor, width, height, amplitudeMax, aggregationMethod, buffer,
                    listeners, dirty >>
    /\ UNCHANGED threadVars

setXmax(maximumX) ==
    /\ Ready
    /\ Called("setXmax", maximumX)
    /\ Recalculate(minXsamples, maximumX, amplitudeMax, width, height)
    /\ UNCHANGED << oscProcessor, width, height, amplitudeMax, minXsamples,
                    aggregationMethod, buffer, listeners, dirty >>
    /\ UNCHANGED threadVars

setAggregationMethod(method) ==
    /\ Ready
    /\ Called("setAggregationMethod", 0)
    /\ aggregationMethod' = method
    /\ UNCHANGED << oscProcessor, buffer, listeners, dirty, ub >>
    /\ UNCHANGED cfgVars
    /\ UNCHANGED threadVars

(***************************************************************************)
(* Frame delivery and painting, each as one uninterrupted call             *)
(***************************************************************************)
\* repaint(): JUCE marks the component's area dirty, and ignores the call while
\* the area is empty
repaint == dirty' = (dirty \/ (width > 0 /\ height > 0))

\* oscProcessor->copyFrame (buffer.getWritePointer (ch), ch) for every channel
copyFrames(b, k) ==
    [b EXCEPT !.data = [ch \in 0 .. b.numChannels - 1 |->
                           [i \in 0 .. b.numSamples - 1 |-> k]]]

\* Processor q, which has this widget as a listener, delivers a frame with content k
audioProbeUpdated(q, k) ==
    /\ Ready
    /\ audio.pc = "idle"
    /\ q \in listeners
    /\ Called("audioProbeUpdated", q)
    /\ IF ownsProbe(oscProcessor, q)
       THEN repaint /\ buffer' = copyFrames(buffer, k)
       ELSE UNCHANGED << dirty, buffer >>
    /\ UNCHANGED << oscProcessor, aggregationMethod, listeners, ub >>
    /\ UNCHANGED cfgVars
    /\ UNCHANGED threadVars

Channels == 0 .. getNumChannels(oscProcessor) - 1

\* Foreground::paint -> paintWaveform; u is what unwritten samples hold.
\* (The mouse read-out that follows the channel loop draws text only.)
paintWaveform(u) ==
    /\ Ready
    /\ dirty' = FALSE
    /\ lastCall' = [op |-> "other", arg |-> 0]
    /\ IF oscProcessor = nullptr
       THEN NullDeref /\ p' = << >> /\ runs' = << >>
       ELSE IF \E ch \in Channels :
                  \E j \in 1 .. Len(ReadOrder(ch)) : ~InBuffer(buffer, ch, ReadOrder(ch)[j])
            THEN ub' = "outOfBoundsRead" /\ p' = << >> /\ runs' = << >>
            ELSE /\ p' = [ch \in Channels |-> paintChannel(buffer, ch, u).p]
                 /\ runs' = [ch \in Channels |-> paintChannel(buffer, ch, u).runs]
                 /\ UNCHANGED ub
    /\ UNCHANGED << oscProcessor, aggregationMethod, buffer, listeners >>
    /\ UNCHANGED cfgVars
    /\ UNCHANGED threadVars

(***************************************************************************)
(* Spec: the host configures the widget and paints it.                     *)
(***************************************************************************)
Next ==
    \/ \E q \in Processors : assignOscProcessor(q)
    \/ prepare
    \/ \E w \in 0 .. MaxWidth, h \in Heights : resized(w, h)
    \/ \E a \in AmplitudeArgs : setMaxAmplitude(a)
    \/ \E x \in XArgs : setXmin(x)
    \/ \E x \in XArgs : setXmax(x)
    \/ \E u \in SampleValues : paintWaveform(u)

Spec == Init /\ [][Next]_vars

(***************************************************************************)
(* SpecPaint: frames are delivered and painted, under every window, width  *)
(* and aggregation method (the amplitude scale, which the vertex count and *)
(* the choice of the sample of a run do not depend on, stays the default). *)
(***************************************************************************)
NextPaint ==
    \/ \E q \in Processors : assignOscProcessor(q)
    \/ \E w \in 0 .. MaxWidth, h \in Heights : resized(w, h)
    \/ \E x \in XArgs : setXmin(x)
    \/ \E x \in XArgs : setXmax(x)
    \/ \E m \in Methods : setAggregationMethod(m)
    \/ \E q \in Processors, k \in 1 .. NumFrames : audioProbeUpdated(q, k)
    \/ \E u \in SampleValues : paintWaveform(u)

SpecPaint == Init /\ [][NextPaint]_vars

(***************************************************************************)
(* SpecThreads: the audio thread runs audioProbeUpdated one sample at a    *)
(* time while the message thread paints one read at a time, polls the      *)
(* timer and destroys the widget.                                          *)
(***************************************************************************)
\* A processor that holds the widget as a listener calls audioProbeUpdated:
\* the ownsProbe test and repaint()
AudioDeliver(q, k) ==
    /\ ub = "none"
    /\ audio.pc = "idle"
    /\ q \in listeners
    /\ IF widget = "released"
       THEN ub' = "callAfterRelease" /\ UNCHANGED << dirty, audio >>
       ELSE /\ UNCHANGED ub
            /\ IF ownsProbe(oscProcessor, q)
               THEN repaint /\ audio' = [pc |-> "lock", k |-> k]
               ELSE UNCHANGED << dirty, audio >>
    /\ UNCHANGED << oscProcessor, aggregationMethod, buffer, p, runs, lastCall, listeners,
                    dataFrameReady, critSection, paint, widget, written, staleRender,
                    seen >>
    /\ UNCHANGED cfgVars

\* const ScopedLock copyLock (critSection)
AudioLock ==
    /\ ub = "none"
    /\ audio.pc = "lock"
    /\ critSection = "free"
    /\ critSection' = "audio"
    /\ audio' = [pc |-> "copy", k |-> audio.k, ch |-> 0, i |-> 0, dangling |-> FALSE]
    /\ UNCHANGED << oscProcessor, aggregationMethod, buffer, p, runs, lastCall, ub,
                    listeners, dataFrameReady, dirty, paint, widget, written, staleRender,
                    seen >>
    /\ UNCHANGED cfgVars

\* copyFrame writes the next sample of channel audio.ch
AudioCopy ==
    /\ ub = "none"
    /\ audio.pc = "copy"
    /\ widget = "released" \/ audio.dangling \/ audio.ch < getNumChannels(oscProcessor)
    /\ IF widget = "released"
       THEN ub' = "writeAfterRelease" /\ UNCHANGED << buffer, audio >>
       ELSE IF audio.dangling \/ ~InBuffer(buffer, audio.ch, audio.i)
       THEN ub' = "writeAfterRealloc" /\ UNCHANGED << buffer, audio >>
       ELSE /\ buffer' = [buffer EXCEPT !.data[audio.ch][audio.i] = audio.k]
            /\ audio' = IF audio.i + 1 < getMaximumBlockSize(oscProcessor)
                        THEN [audio EXCEPT !.i = audio.i + 1]
                        ELSE [audio EXCEPT !.ch = audio.ch + 1, !.i = 0]
            /\ UNCHANGED ub
    /\ UNCHANGED << oscProcessor, aggregationMethod, p, runs, lastCall, listeners,
                    dataFrameReady, critSection, dirty, paint, widget, written,
                    staleRender, seen >>
    /\ UNCHANGED cfgVars

\* The channel loop is over: copyLock goes out of scope
AudioUnlock ==
    /\ ub = "none"
    /\ audio.pc = "copy"
    /\ widget # "released" /\ ~audio.dangling
    /\ ~(audio.ch < getNumChannels(oscProcessor))
    /\ critSection' = "free"
    /\ audio' = [pc |-> "idle"]
    /\ written' = TRUE
    /\ UNCHANGED << oscProcessor, aggregationMethod, buffer, p, runs, lastCall, ub,
                    listeners, dataFrameReady, dirty, paint, widget, staleRender,
                    seen >>
    /\ UNCHANGED cfgVars

\* The message thread serves the pending repaint: paintWaveform starts
PaintBegin ==
    /\ Ready
    /\ dirty
    /\ dirty' = FALSE
    /\ Called("paintWaveform", 0)
    /\ IF oscProcessor = nullptr
       THEN NullDeref /\ UNCHANGED << paint, seen >>
       ELSE /\ paint' = [pc |-> "read", ch |-> 0, j |-> 1]
            /\ seen' = {}
            /\ UNCHANGED ub
    /\ staleRender' = ~written
    /\ written' = FALSE
    /\ UNCHANGED << oscProcessor, aggregationMethod, buffer, listeners, dataFrameReady,
                    critSection, audio, widget >>
    /\ UNCHANGED cfgVars

\* paintWaveform reads the next sample of channel paint.ch (no lock is taken)
PaintRead ==
    /\ ub = "none"
    /\ paint.pc = "read"
    /\ paint.j <= Len(ReadOrder(paint.ch))
    /\ LET i == ReadOrder(paint.ch)[paint.j]
       IN  IF ~InBuffer(buffer, paint.ch, i)
           THEN ub' = "outOfBoundsRead" /\ UNCHANGED << paint, seen >>
           ELSE /\ seen' = seen \cup {buffer.data[paint.ch][i]}
                /\ paint' = [paint EXCEPT !.j = paint.j + 1]
                /\ UNCHANGED ub
    /\ UNCHANGED << oscProcessor, aggregationMethod, buffer, p, runs, lastCall, listeners,
                    dataFrameReady, critSection, dirty, audio, widget, written,
                    staleRender >>
    /\ UNCHANGED cfgVars

\* The Path of channel paint.ch is complete and stroked (the Path, a local of the
\* channel loop, is not kept here); after the last channel the pass is over
PaintStroke ==
    /\ ub = "none"
    /\ paint.pc = "read"
    /\ paint.j > Len(ReadOrder(paint.ch))
    /\ IF paint.ch + 1 < getNumChannels(oscProcessor)
       THEN paint' = [pc |-> "read", ch |-> paint.ch + 1, j |-> 1] /\ UNCHANGED seen
       ELSE paint' = [pc |-> "idle"] /\ seen' = {}
    /\ UNCHANGED << oscProcessor, aggregationMethod, buffer, p, runs, lastCall, ub,
                    listeners, dataFrameReady, critSection, dirty, audio, widget, written,
                    staleRender >>
    /\ UNCHANGED cfgVars

\* The poll of the freshness flag
timerCallback ==
    /\ Ready
    /\ IF dataFrameReady
       THEN dataFrameReady' = FALSE /\ repaint
       ELSE UNCHANGED << dataFrameReady, dirty >>
    /\ UNCHANGED << oscProcessor, aggregationMethod, buffer, p, runs, lastCall, ub,
                    listeners, critSection, audio, paint, widget, written, staleRender,
                    seen >>
    /\ UNCHANGED cfgVars

\* oscProcessor->removeListener (this): the listener relation is broken; nothing
\* waits for a delivery that is under way
removeListener(ls, q) == ls \ {q}

\* The body of ~Oscilloscope
Destructor ==
    /\ Ready
    /\ listeners' = IF oscProcessor # nullptr
                    THEN removeListener(listeners, oscProcessor) ELSE listeners
    /\ widget' = "deregistered"
    /\ UNCHANGED << oscProcessor, aggregationMethod, buffer, p, runs, lastCall, ub,
                    dataFrameReady, critSection, dirty, audio, paint, written,
                    staleRender, seen >>
    /\ UNCHANGED cfgVars

\* The members are destroyed after the destructor's body: buffer is released
ReleaseMembers ==
    /\ ub = "none"
    /\ widget = "deregistered"
    /\ widget' = "released"
    /\ UNCHANGED << oscProcessor, aggregationMethod, buffer, p, runs, lastCall, ub,
                    listeners, dataFrameReady, critSection, dirty, audio, paint, written,
                    staleRender, seen >>
    /\ UNCHANGED cfgVars

NextThreads ==
    \/ \E q \in Processors : assignOscProcessor(q)
    \/ resized(MaxWidth, MaxHeight)
    \/ \E q \in Processors, k \in 1 .. NumFrames : AudioDeliver(q, k)
    \/ AudioLock
    \/ AudioCopy
    \/ AudioUnlock
    \/ PaintBegin
    \/ PaintRead
    \/ PaintStroke
    \/ timerCallback
    \/ Destructor
    \/ ReleaseMembers

SpecThreads == Init /\ [][NextThreads]_vars

(***************************************************************************)
(* Claims                                                                  *)
(***************************************************************************)
Assigned == oscProcessor # nullptr
Painted  == DOMAIN p # {}
Visible  == width >= 1 /\ height >= 1

\* C1 (SpecThreads): a render pass is triggered only if at least one new frame
\* was written since the previous render pass began.
RenderOnlyOnNewFrame == ~staleRender

\* C2 (SpecThreads): all the samples a render pass reads come from one single
\* write; it never sees a buffer the producer's copy has only partly filled.
RenderSeesOneFrame == Cardinality(seen) <= 1

\* C3 (SpecThreads): the widget deregisters before its buffer is released, so no
\* producer write into the buffer starts or continues after the release.
NoWriteAfterRelease == ub # "writeAfterRelease"

\* C4 (Spec): on an assigned widget getXmax() is never greater than the
\* producer's maximum block size, and a setXmax(v) with v above the maximum
\* block size leaves it equal to the maximum block size.
XmaxWithinBlockSize ==
    Assigned =>
        /\ maxXsamples <= getMaximumBlockSize(oscProcessor)
        /\ (lastCall.op = "setXmax" /\ lastCall.arg > getMaximumBlockSize(oscProcessor))
               => maxXsamples = getMaximumBlockSize(oscProcessor)

\* C4 witness: setXmax was just called with more than the maximum block size
XmaxWasLimited ==
    /\ Assigned
    /\ lastCall.op = "setXmax"
    /\ lastCall.arg > getMaximumBlockSize(oscProcessor)
    /\ maxXsamples = getMaximumBlockSize(oscProcessor)

\* C5 (Spec): whenever the viewport width or height is zero, or the window span
\* is zero, or the amplitude scale is zero, the ratios and their inverses hold a
\* finite neutral value, not the result of a division by zero.
RatiosNeverDivideByZero ==
    (width = 0 \/ height = 0 \/ maxXsamples - minXsamples = 0 \/ IsZero(amplitudeMax))
        => /\ IsFinite(xRatio) /\ IsFinite(xRatioInv)
           /\ IsFinite(yRatio) /\ IsFinite(yRatioInv)

\* C6 (Spec): an operation that needs the producer, called before a producer is
\* assigned, reports 'not ready' and does not dereference the unassigned handle.
UnassignedNeverDereferenced == ub # "nullDeref"

\* C7 (Spec): after any sequence of setter calls the stored configuration is
\* valid: 0 <= minSample < maxSample and amplitudeScale > 0.
ConfigurationValid ==
    Assigned =>
        /\ 0 <= minXsamples
        /\ minXsamples < maxXsamples
        /\ FLess(IntToFloat(0), amplitudeMax)

NearestSampleEmitsFirst ==
    (aggregationMethod = "NearestSample" /\ Painted /\ Visible) =>
        \A ch \in DOMAIN p : \A j \in 1 .. Len(runs[ch]) :
            (\A i \in runs[ch][j][1] .. runs[ch][j][2] : buffer.data[ch][i] # 0)
                => p[ch][j + 1][2] = toPxFromAmp(Y(buffer, ch, runs[ch][j][1], 0))

\* C10 (Spec): every sample index paintWaveform reads lies in 0 .. block size - 1
\* (stated for the passes over a non-empty viewport).
PaintReadsInsideRow == Visible => ub # "outOfBoundsRead"

====
